---- MODULE Spec2Model ----
(***************************************************************************)
(* Project-management server: the users and projects tables, the JWT gate  *)
(* and the nine Express routes of server/storage.ts (storage + routes),    *)
(* with the zod schemas of the shared schema file (unnamed/part_001).      *)
(*                                                                         *)
(* Under Spec a request is handled in one step and its response delivered *)
(* in the next; SpecRace and SpecProjectRace interleave handlers at their  *)
(* awaits; SpecClient runs the browser client (useAuth, the Dashboard's    *)
(* queries and mutations) against the server.                              *)
(***************************************************************************)
EXTENDS Integers, Sequences, FiniteSets, TLC

VARIABLES
    users,       \* rows of the users table
    projects,    \* rows of the projects table
    projectSeq,  \* number of project ids drawn so far (ids are fresh uuids)
    now,         \* the clock, in days
    req,         \* the request being answered: route, gate outcome, :id, body
    res,         \* its response: status and JSON body
    calls,       \* the storage methods its handler called, in order
    before,      \* the tables and projectSeq as the request found them
    registered,  \* history: email, password and user id of each registration
                 \* answered 201
    inflight,    \* handlers that are between two awaits
    localStorage,  \* the browser's authToken entry
    tokens,      \* the token state of each useAuth instance
    effects,     \* the useAuth instances whose effect is yet to run
    page,        \* the page the browser shows
    cache,       \* the query cache of the page's QueryClient
    flight,      \* the client's requests that are not answered yet
    last,        \* history: the last step of the client
    auth,        \* history: how the client's session last changed
    loggedOut    \* history: the tokens logout() was called with

clientVars == <<localStorage, tokens, effects, page, cache, flight, last, auth, loggedOut>>

vars == <<users, projects, projectSeq, now, req, res, calls, before, registered,
          inflight, localStorage, tokens, effects, page, cache, flight, last, auth,
          loggedOut>>

-----------------------------------------------------------------------------
(* Bounds of the model *)

\* at most this many projects are ever created
MaxProjects == 2

\* the clock advances at most this many times
MaxTicks == 1

\* at most this many registration handlers run at the same time
MaxInflight == 2

\* the browser client creates at most this many projects
MaxClientProjects == 1

-----------------------------------------------------------------------------
(* Values *)

\* JSON null (the description column is nullable)
Null == "<null>"

\* the value of a request without an authorization header
NoHeader == <<>>

UserId(n) == <<"user", n>>
ProjectId(n) == <<"project", n>>

\* the :id path parameters tried by requests
ProjectIds == {ProjectId(n) : n \in 1..MaxProjects}

\* strings of the model that zod's email() check accepts
EmailShaped == {"ana@x.com", "bob@x.com"}

\* Date.parse on the strings of the model: days since the epoch; a string
\* outside the domain parses to NaN
ParsedDate == [s \in {"2025-01-01"} |-> 20089]

Statuses == {"pendente", "andamento", "concluido"}

-----------------------------------------------------------------------------
(* Request payloads *)

\* bodies of POST /api/auth/register: two well-formed ones, and one for each
\* rule of the schema broken
RegisterBodies ==
    {[name |-> "Ana", email |-> "ana@x.com", password |-> "secret1", confirmPassword |-> "secret1"],
     [name |-> "Bob", email |-> "bob@x.com", password |-> "secret2", confirmPassword |-> "secret2"],
     [name |-> "", email |-> "ana@x.com", password |-> "secret1", confirmPassword |-> "secret1"],
     [name |-> "A", email |-> "ana@x.com", password |-> "secret1", confirmPassword |-> "secret1"],
     [name |-> "Ana", email |-> "", password |-> "secret1", confirmPassword |-> "secret1"],
     [name |-> "Ana", email |-> "ana", password |-> "secret1", confirmPassword |-> "secret1"],
     [name |-> "Ana", email |-> "bob@x.com", password |-> "", confirmPassword |-> ""],
     [name |-> "Ana", email |-> "ana@x.com", password |-> "abc", confirmPassword |-> "abc"],
     [name |-> "Ana", email |-> "ana@x.com", password |-> "secret1", confirmPassword |-> ""],
     [name |-> "Ana", email |-> "ana@x.com", password |-> "secret1", confirmPassword |-> "secret2"],
     [email |-> "ana@x.com", password |-> "secret1", confirmPassword |-> "secret1"],
     [name |-> "Ana", email |-> "ana@x.com", password |-> "secret1"]}

\* bodies of POST /api/auth/login
LoginBodies ==
    [email : {"ana@x.com", "bob@x.com"}, password : {"secret1", "secret2"}]
    \cup {[email |-> "", password |-> "secret1"],
          [email |-> "ana", password |-> "secret1"],
          [email |-> "ana@x.com", password |-> ""],
          [email |-> "ana@x.com", password |-> "abc"],
          [password |-> "secret1"],
          [email |-> "ana@x.com"]}

\* bodies of POST /api/projects and PUT /api/projects/:id: well-formed ones
\* (with a description, without one, with null, with a userId key), and
\* bodies that break a rule of the schema
ProjectBodies ==
    {[name |-> "Site", description |-> "d", status |-> "pendente", startDate |-> "2025-01-01"],
     [name |-> "Site", status |-> "andamento", startDate |-> "2025-01-01"],
     [name |-> "Site", description |-> Null, status |-> "concluido",
      startDate |-> "2025-01-01", userId |-> UserId(1)],
     [name |-> "S", description |-> "d", status |-> "pendente", startDate |-> "2025-01-01"],
     [name |-> "Site", status |-> "done", startDate |-> "2025-01-01"],
     [name |-> "Site", status |-> "pendente", startDate |-> "amanha"],
     [name |-> "Site", startDate |-> "2025-01-01"]}

Has(body, key) == key \in DOMAIN body

-----------------------------------------------------------------------------
(* zod schemas (unnamed/part_001): the issues of a parse, in zod's order.  *)
(* A missing key is an invalid_type issue ("Required"), which aborts the   *)
(* object: refinements run only when no key is missing.                    *)

MinIssue(s, n, msg) == IF Len(s) < n THEN <<msg>> ELSE <<>>

EmailIssue(s, msg) == IF s \in EmailShaped THEN <<>> ELSE <<msg>>

\* the issue of a missing key
Required == <<"Required">>

EmailChecks(s) == MinIssue(s, 1, "Email é obrigatório") \o EmailIssue(s, "Email inválido")

PasswordChecks(s) ==
    MinIssue(s, 1, "Senha é obrigatória")
    \o MinIssue(s, 6, "Senha deve ter pelo menos 6 caracteres")

UserNameChecks(s) ==
    MinIssue(s, 1, "Nome é obrigatório")
    \o MinIssue(s, 2, "Nome deve ter pelo menos 2 caracteres")

ConfirmChecks(s) == MinIssue(s, 1, "Confirmação de senha é obrigatória")

\* mutant: login asks for a longer password than registration does
loginSchemaMin8(body) ==
    (IF Has(body, "email") THEN EmailChecks(body.email) ELSE Required)
    \o (IF Has(body, "password")
        THEN MinIssue(body.password, 8, "Senha deve ter pelo menos 8 caracteres")
        ELSE Required)

loginSchema(body) ==
    (IF Has(body, "email") THEN EmailChecks(body.email) ELSE Required)
    \o (IF Has(body, "password") THEN PasswordChecks(body.password) ELSE Required)

registerSchema(body) ==
    LET fields ==
            (IF Has(body, "name") THEN UserNameChecks(body.name) ELSE Required)
            \o (IF Has(body, "email") THEN EmailChecks(body.email) ELSE Required)
            \o (IF Has(body, "password") THEN PasswordChecks(body.password) ELSE Required)
            \o (IF Has(body, "confirmPassword") THEN ConfirmChecks(body.confirmPassword)
                ELSE Required)
        complete == \A k \in {"name", "email", "password", "confirmPassword"} : Has(body, k)
    IN  IF complete /\ body.password # body.confirmPassword
        THEN fields \o <<"Senhas não conferem">>
        ELSE fields

ProjectNameChecks(s) ==
    MinIssue(s, 1, "Nome do projeto é obrigatório")
    \o MinIssue(s, 2, "Nome deve ter pelo menos 2 caracteres")

\* mutant: the status is any string (z.string() for z.enum)
StatusChecksAnyString(s) == <<>>

StatusChecks(s) == IF s \in Statuses THEN <<>> ELSE <<"Invalid enum value">>

StartDateChecks(s) ==
    MinIssue(s, 1, "Data de início é obrigatória")
    \o (IF s \in DOMAIN ParsedDate THEN <<>> ELSE <<"Data inválida">>)

\* description is nullable and optional: a missing key is no issue
\* mutant: the schema has no enum for the status (any string will do)
projectSchemaStatusString(body) ==
    (IF Has(body, "name") THEN ProjectNameChecks(body.name) ELSE Required)
    \o (IF Has(body, "status") THEN <<>> ELSE Required)
    \o (IF Has(body, "startDate") THEN StartDateChecks(body.startDate) ELSE Required)

projectSchema(body) ==
    (IF Has(body, "name") THEN ProjectNameChecks(body.name) ELSE Required)
    \o (IF Has(body, "status") THEN StatusChecks(body.status) ELSE Required)
    \o (IF Has(body, "startDate") THEN StartDateChecks(body.startDate) ELSE Required)

-----------------------------------------------------------------------------
(* bcrypt and jsonwebtoken *)

\* the cost factor passed to bcrypt.hash
SaltRounds == 10

\* the salts bcrypt.hash may draw
Salts == {"salt1"}

\* a password column holding the text as it is
Plain(text) == [alg |-> "none", cost |-> 0, salt |-> "", of |-> text]

\* mutant: the password is stored as it came
bcryptHashNone(password, salt) == Plain(password)

\* bcrypt.hash(password, SaltRounds) with the salt drawn: one-way, so the
\* digest is a value tagged by what it was computed from
bcryptHash(password, salt) ==
    [alg |-> "bcrypt", cost |-> SaltRounds, salt |-> salt, of |-> password]

\* bcrypt.compare(password, digest): hashes again with the digest's salt
bcryptCompare(password, digest) == bcryptHash(password, digest.salt) = digest

JWT_SECRET == "your-secret-key"

\* expiresIn: "7d", in days
ExpiresIn == 7

\* jwt.sign(payload, secret, {expiresIn: "7d"}) at time t
jwtSign(payload, secret, t) ==
    [kind |-> "jwt",
     payload |-> [userId |-> payload.userId, email |-> payload.email,
                  iat |-> t, exp |-> t + ExpiresIn],
     sig |-> secret]

\* mutant: verify with ignoreExpiration
jwtVerifyIgnoreExpiration(token, secret, t) ==
    /\ token.kind = "jwt"
    /\ token.sig = secret

\* jwt.verify(token, secret) at time t: TRUE when it calls back without err
jwtVerify(token, secret, t) ==
    /\ token.kind = "jwt"
    /\ token.sig = secret
    /\ t < token.payload.exp

\* the err jwt.verify calls back with: the checks come in this order
jwtError(token, secret, t) ==
    IF token.kind # "jwt" THEN "jwt malformed"
    ELSE IF token.sig # secret THEN "invalid signature"
    ELSE IF t >= token.payload.exp THEN "jwt expired"
    ELSE "none"

\* tokens that are no JWT at all, and the empty string after "Bearer "
MalformedToken == [kind |-> "malformed"]
EmptyToken == [kind |-> "empty"]

-----------------------------------------------------------------------------
(* DatabaseStorage (server/storage.ts:20-94) over the two tables.          *)
(* A select returns the set of matching rows; `const [row] = rows` takes   *)
(* one of them, and `row || undefined` is undefined when there is none.    *)

First(rows) == CHOOSE r \in rows : TRUE

\* mutant: the select of getUser has no where clause
getUserNoWhere(U, id) == U

getUser(U, id) == {u \in U : u.id = id}

\* mutant: the lookup compares the wrong column
getUserByEmailByName(U, email) == {u \in U : u.name = email}

getUserByEmail(U, email) == {u \in U : u.email = email}

\* insert into users: the id is a fresh uuid, the timestamps default to
\* now(); the unique constraint on email makes the insert throw
\* mutant: the users table has no unique constraint on email
createUserNoUnique(U, insertUser, t) ==
    LET row == [id |-> UserId(Cardinality(U) + 1), name |-> insertUser.name,
                email |-> insertUser.email, password |-> insertUser.password,
                createdAt |-> t, updatedAt |-> t]
    IN  [threw |-> FALSE, rows |-> U \cup {row}, row |-> row]

createUser(U, insertUser, t) ==
    LET row == [id |-> UserId(Cardinality(U) + 1), name |-> insertUser.name,
                email |-> insertUser.email, password |-> insertUser.password,
                createdAt |-> t, updatedAt |-> t]
    IN  IF \E u \in U : u.email = insertUser.email
        THEN [threw |-> TRUE, rows |-> U, row |-> row]
        ELSE [threw |-> FALSE, rows |-> U \cup {row}, row |-> row]

\* mutant: the select has no orderBy
OrderedAnyHow(S) ==
    {s \in [1..Cardinality(S) -> S] : \A i, j \in DOMAIN s : i < j => s[i] # s[j]}

\* the sequences that list the rows of S, each once, by createdAt ascending
\* (rows of equal createdAt come in either order)
OrderedByCreatedAt(S) ==
    {s \in [1..Cardinality(S) -> S] :
        /\ \A i, j \in DOMAIN s : i < j => s[i] # s[j] /\ s[i].createdAt <= s[j].createdAt}

getProjects(P, userId) == OrderedByCreatedAt({p \in P : p.userId = userId})

getProject(P, id, userId) == {p \in P : p.id = id /\ p.userId = userId}

\* insert into projects: the n-th fresh uuid; a missing description is
\* stored as null; the foreign key on user_id makes the insert throw when
\* no user has that id
createProject(U, P, projectData, n, t) ==
    LET row == [id |-> ProjectId(n), name |-> projectData.name,
                description |-> IF Has(projectData, "description")
                                THEN projectData.description ELSE Null,
                status |-> projectData.status, startDate |-> projectData.startDate,
                userId |-> projectData.userId, createdAt |-> t, updatedAt |-> t]
    IN  IF getUser(U, projectData.userId) = {}
        THEN [threw |-> TRUE, rows |-> P, row |-> row]
        ELSE [threw |-> FALSE, rows |-> P \cup {row}, row |-> row]

\* mutant: the update stamps the creation time too
SetColumnsCreatedAt(row, updates, t) ==
    [k \in DOMAIN row |->
        IF k \in {"updatedAt", "createdAt"} THEN t
        ELSE IF k \in DOMAIN updates THEN updates[k]
        ELSE row[k]]

\* mutant: a column the body leaves out is written as null
SetColumnsNullMissing(row, updates, t) ==
    [k \in DOMAIN row |->
        IF k = "updatedAt" THEN t
        ELSE IF k \in DOMAIN updates THEN updates[k]
        ELSE IF k = "description" THEN Null
        ELSE row[k]]

\* .set({...updates, updatedAt: new Date()}): the keys of updates (undefined
\* values are no keys) and updatedAt are written, the other columns kept
SetColumns(row, updates, t) ==
    [k \in DOMAIN row |->
        IF k = "updatedAt" THEN t
        ELSE IF k \in DOMAIN updates THEN updates[k]
        ELSE row[k]]

\* mutant: the where clause of the update leaves out the owner
updateProjectAnyOwner(P, id, userId, updates, t) ==
    LET hit == {p \in P : p.id = id}
    IN  [rows |-> (P \ hit) \cup {SetColumns(p, updates, t) : p \in hit},
         returning |-> {SetColumns(p, updates, t) : p \in hit}]

\* mutant: the update inserts the row when it finds none (an upsert)
updateProjectUpsert(P, id, userId, updates, t) ==
    LET hit == {p \in P : p.id = id /\ p.userId = userId}
        blank == [id |-> id, name |-> "", description |-> Null, status |-> "pendente",
                  startDate |-> 0, userId |-> userId, createdAt |-> t, updatedAt |-> t]
        rows == IF hit = {} THEN {SetColumns(blank, updates, t)}
                ELSE {SetColumns(p, updates, t) : p \in hit}
    IN  [rows |-> (P \ hit) \cup rows, returning |-> rows]

\* update ... where id = :id and user_id = :userId returning *
updateProject(P, id, userId, updates, t) ==
    LET hit == {p \in P : p.id = id /\ p.userId = userId}
    IN  [rows |-> (P \ hit) \cup {SetColumns(p, updates, t) : p \in hit},
         returning |-> {SetColumns(p, updates, t) : p \in hit}]

\* mutant: the delete removes the row of any owner, and counts the caller's
deleteProjectAnyOwner(P, id, userId) ==
    [rows |-> {p \in P : p.id # id},
     deleted |-> \E p \in P : p.id = id /\ p.userId = userId]

\* mutant: rowCount is compared with >= 0
deleteProjectAlwaysTrue(P, id, userId) ==
    [rows |-> {p \in P : ~(p.id = id /\ p.userId = userId)}, deleted |-> TRUE]

\* delete ... where id = :id and user_id = :userId; TRUE when rowCount > 0
deleteProject(P, id, userId) ==
    LET hit == {p \in P : p.id = id /\ p.userId = userId}
    IN  [rows |-> P \ hit, deleted |-> Cardinality(hit) > 0]

\* mutant: the select of the stats leaves out the owner
getProjectStatsAllUsers(P, userId) ==
    LET count(st) == Cardinality({p \in P : p.status = st})
    IN  [total |-> Cardinality(P), pendente |-> count("pendente"),
         andamento |-> count("andamento"), concluido |-> count("concluido")]

getProjectStats(P, userId) ==
    LET userProjects == {p \in P : p.userId = userId}
        count(st) == Cardinality({p \in userProjects : p.status = st})
    IN  [total |-> Cardinality(userProjects), pendente |-> count("pendente"),
         andamento |-> count("andamento"), concluido |-> count("concluido")]

-----------------------------------------------------------------------------
(* Responses and handler outcomes *)

Json(status, body) == [status |-> status, body |-> body]

Message(text) == [message |-> text]

\* res.status(204).send()
NoBody == <<>>

\* what a handler leaves behind: the response, the tables, the storage calls
Out(response, U, P, n, called) ==
    [res |-> response, users |-> U, projects |-> P, seq |-> n, calls |-> called]

\* mutant: the whole row goes out (res.json(user))
PublicUserWholeRow(u) == u

PublicUser(u) == [id |-> u.id, name |-> u.name, email |-> u.email]

-----------------------------------------------------------------------------
(* authenticateToken (server/storage.ts:108-123). A header is the sequence *)
(* of its space-separated parts.                                           *)

\* mutant: only a missing part counts as no token, "Bearer " with nothing
\* after it goes on to jwt.verify
authenticateTokenEmpty(authHeader, t) ==
    IF Len(authHeader) < 2
    THEN [next |-> FALSE, gate |-> "missing",
          res |-> Json(401, Message("Token de acesso requerido"))]
    ELSE IF ~jwtVerify(authHeader[2], JWT_SECRET, t)
    THEN [next |-> FALSE, gate |-> "invalid",
          res |-> Json(403, Message("Token inválido"))]
    ELSE [next |-> TRUE, gate |-> "verified", user |-> authHeader[2].payload]

\* mutant: the token is decoded (jwt.decode), its signature not checked
authenticateTokenDecodeOnly(authHeader, t) ==
    LET missing == Len(authHeader) < 2 \/ authHeader[2] = EmptyToken
    IN  IF missing
        THEN [next |-> FALSE, gate |-> "missing",
              res |-> Json(401, Message("Token de acesso requerido"))]
        ELSE IF authHeader[2].kind # "jwt"
        THEN [next |-> FALSE, gate |-> "invalid",
              res |-> Json(403, Message("Token inválido"))]
        ELSE [next |-> TRUE, gate |-> "verified", user |-> authHeader[2].payload]

\* mutant: an expired token gets an answer of its own
authenticateTokenExpired(authHeader, t) ==
    LET missing == Len(authHeader) < 2 \/ authHeader[2] = EmptyToken
    IN  IF missing
        THEN [next |-> FALSE, gate |-> "missing",
              res |-> Json(401, Message("Token de acesso requerido"))]
        ELSE IF jwtError(authHeader[2], JWT_SECRET, t) = "jwt expired"
        THEN [next |-> FALSE, gate |-> "invalid",
              res |-> Json(401, Message("Token expirado"))]
        ELSE IF ~jwtVerify(authHeader[2], JWT_SECRET, t)
        THEN [next |-> FALSE, gate |-> "invalid",
              res |-> Json(403, Message("Token inválido"))]
        ELSE [next |-> TRUE, gate |-> "verified", user |-> authHeader[2].payload]

authenticateToken(authHeader, t) ==
    LET missing == Len(authHeader) < 2 \/ authHeader[2] = EmptyToken
    IN  IF missing
        THEN [next |-> FALSE, gate |-> "missing",
              res |-> Json(401, Message("Token de acesso requerido"))]
        ELSE IF ~jwtVerify(authHeader[2], JWT_SECRET, t)
        THEN [next |-> FALSE, gate |-> "invalid",
              res |-> Json(403, Message("Token inválido"))]
        ELSE [next |-> TRUE, gate |-> "verified", user |-> authHeader[2].payload]

-----------------------------------------------------------------------------
(* Route handlers (server/storage.ts:125-312). U, P, n are the tables and  *)
(* the project id counter before the request, t the time of the request.   *)

registerHandler(body, U, P, n, t, salt) ==
    LET issues == registerSchema(body)
        existingUser == getUserByEmail(U, body.email)
        hashedPassword == bcryptHash(body.password, salt)
        created == createUser(U, [name |-> body.name, email |-> body.email,
                                  password |-> hashedPassword], t)
        user == created.row
        token == jwtSign([userId |-> user.id, email |-> user.email], JWT_SECRET, t)
    IN  IF issues # <<>>
        THEN Out(Json(400, Message(issues[1])), U, P, n, <<>>)
        ELSE IF existingUser # {}
        THEN Out(Json(400, Message("Email já está em uso")), U, P, n, <<"getUserByEmail">>)
        ELSE IF created.threw
        THEN Out(Json(500, Message("Erro interno do servidor")), U, P, n,
                 <<"getUserByEmail", "createUser">>)
        ELSE Out(Json(201, [token |-> token, user |-> PublicUser(user)]),
                 created.rows, P, n, <<"getUserByEmail", "createUser">>)

\* mutant: a login stamps the user row (last seen)
loginHandlerTouch(body, U, P, n, t) ==
    LET issues == loginSchema(body)
        found == getUserByEmail(U, body.email)
        user == First(found)
        token == jwtSign([userId |-> user.id, email |-> user.email], JWT_SECRET, t)
    IN  IF issues # <<>>
        THEN Out(Json(400, Message(issues[1])), U, P, n, <<>>)
        ELSE IF found = {} \/ ~bcryptCompare(body.password, user.password)
        THEN Out(Json(401, Message("Email ou senha inválidos")), U, P, n, <<"getUserByEmail">>)
        ELSE Out(Json(200, [token |-> token, user |-> PublicUser(user)]),
                 (U \ {user}) \cup {[user EXCEPT !.updatedAt = t]}, P, n,
                 <<"getUserByEmail">>)

\* mutant: an unknown email gets an answer of its own
loginHandlerLeaky(body, U, P, n, t) ==
    LET issues == loginSchema(body)
        found == getUserByEmail(U, body.email)
        user == First(found)
        token == jwtSign([userId |-> user.id, email |-> user.email], JWT_SECRET, t)
    IN  IF issues # <<>>
        THEN Out(Json(400, Message(issues[1])), U, P, n, <<>>)
        ELSE IF found = {}
        THEN Out(Json(404, Message("Usuário não encontrado")), U, P, n, <<"getUserByEmail">>)
        ELSE IF ~bcryptCompare(body.password, user.password)
        THEN Out(Json(401, Message("Email ou senha inválidos")), U, P, n, <<"getUserByEmail">>)
        ELSE Out(Json(200, [token |-> token, user |-> PublicUser(user)]),
                 U, P, n, <<"getUserByEmail">>)

loginHandler(body, U, P, n, t) ==
    LET issues == loginSchema(body)
        found == getUserByEmail(U, body.email)
        user == First(found)
        token == jwtSign([userId |-> user.id, email |-> user.email], JWT_SECRET, t)
    IN  IF issues # <<>>
        THEN Out(Json(400, Message(issues[1])), U, P, n, <<>>)
        ELSE IF found = {}
        THEN Out(Json(401, Message("Email ou senha inválidos")), U, P, n, <<"getUserByEmail">>)
        ELSE IF ~bcryptCompare(body.password, user.password)
        THEN Out(Json(401, Message("Email ou senha inválidos")), U, P, n, <<"getUserByEmail">>)
        ELSE Out(Json(200, [token |-> token, user |-> PublicUser(user)]),
                 U, P, n, <<"getUserByEmail">>)

currentUserHandler(claims, U, P, n) ==
    LET found == getUser(U, claims.userId)
    IN  IF found = {}
        THEN Out(Json(404, Message("Usuário não encontrado")), U, P, n, <<"getUser">>)
        ELSE Out(Json(200, PublicUser(First(found))), U, P, n, <<"getUser">>)

\* one outcome for each order the select may return the rows in
listProjectsHandler(claims, U, P, n) ==
    {Out(Json(200, rows), U, P, n, <<"getProjects">>) : rows \in getProjects(P, claims.userId)}

projectStatsHandler(claims, U, P, n) ==
    Out(Json(200, getProjectStats(P, claims.userId)), U, P, n, <<"getProjectStats">>)

\* the columns a handler passes on from a validated body: name, status, the
\* parsed start date, and description when the body has one
ProjectColumns(body) ==
    [k \in {"name", "status", "startDate"} \cup ({"description"} \cap DOMAIN body) |->
        IF k = "startDate" THEN ParsedDate[body.startDate] ELSE body[k]]

\* mutant: the body is spread over the owner ({userId, ...req.body})
createProjectHandlerBodyOwner(claims, body, U, P, n, t) ==
    LET issues == projectSchema(body)
        projectData == [k \in DOMAIN ProjectColumns(body) \cup {"userId"} |->
                           IF k = "userId"
                           THEN (IF Has(body, "userId") THEN body.userId ELSE claims.userId)
                           ELSE ProjectColumns(body)[k]]
        created == createProject(U, P, projectData, n + 1, t)
    IN  IF issues # <<>>
        THEN Out(Json(400, Message(issues[1])), U, P, n, <<>>)
        ELSE IF created.threw
        THEN Out(Json(500, Message("Erro ao criar projeto")), U, P, n, <<"createProject">>)
        ELSE Out(Json(201, created.row), U, created.rows, n + 1, <<"createProject">>)

createProjectHandler(claims, body, U, P, n, t) ==
    LET issues == projectSchema(body)
        projectData == [k \in DOMAIN ProjectColumns(body) \cup {"userId"} |->
                           IF k = "userId" THEN claims.userId ELSE ProjectColumns(body)[k]]
        created == createProject(U, P, projectData, n + 1, t)
    IN  IF issues # <<>>
        THEN Out(Json(400, Message(issues[1])), U, P, n, <<>>)
        ELSE IF created.threw
        THEN Out(Json(500, Message("Erro ao criar projeto")), U, P, n, <<"createProject">>)
        ELSE Out(Json(201, created.row), U, created.rows, n + 1, <<"createProject">>)

getProjectHandler(claims, id, U, P, n) ==
    LET found == getProject(P, id, claims.userId)
    IN  IF found = {}
        THEN Out(Json(404, Message("Projeto não encontrado")), U, P, n, <<"getProject">>)
        ELSE Out(Json(200, First(found)), U, P, n, <<"getProject">>)

updateProjectHandler(claims, id, body, U, P, n, t) ==
    LET issues == projectSchema(body)
        updated == updateProject(P, id, claims.userId, ProjectColumns(body), t)
    IN  IF issues # <<>>
        THEN Out(Json(400, Message(issues[1])), U, P, n, <<>>)
        ELSE IF updated.returning = {}
        THEN Out(Json(404, Message("Projeto não encontrado")), U, updated.rows, n,
                 <<"updateProject">>)
        ELSE Out(Json(200, First(updated.returning)), U, updated.rows, n, <<"updateProject">>)

\* mutant: a project of another owner is answered 403
deleteProjectHandlerForbidden(claims, id, U, P, n) ==
    LET result == deleteProject(P, id, claims.userId)
    IN  IF \E p \in P : p.id = id /\ p.userId # claims.userId
        THEN Out(Json(403, Message("Acesso negado")), U, P, n, <<"deleteProject">>)
        ELSE IF ~result.deleted
        THEN Out(Json(404, Message("Projeto não encontrado")), U, result.rows, n,
                 <<"deleteProject">>)
        ELSE Out(Json(204, NoBody), U, result.rows, n, <<"deleteProject">>)

deleteProjectHandler(claims, id, U, P, n) ==
    LET result == deleteProject(P, id, claims.userId)
    IN  IF ~result.deleted
        THEN Out(Json(404, Message("Projeto não encontrado")), U, result.rows, n,
                 <<"deleteProject">>)
        ELSE Out(Json(204, NoBody), U, result.rows, n, <<"deleteProject">>)

-----------------------------------------------------------------------------
(* Routes: app.<verb>(path[, authenticateToken], handler)                  *)

\* the routes registered with the authenticateToken middleware
ProtectedRoutes ==
    {"currentUser", "listProjects", "projectStats", "createProject", "getProject",
     "updateProject", "deleteProject"}

\* the routes registered without it
OpenRoutes == {"register", "login"}

\* the middleware chain in front of a route's handler
Gate(route, authHeader, t) ==
    IF route \in ProtectedRoutes
    THEN authenticateToken(authHeader, t)
    ELSE [next |-> TRUE, gate |-> "open"]

\* the outcome of a request the gate answered itself
Rejected(g) == Out(g.res, users, projects, projectSeq, <<>>)

NoId == <<>>

\* registerRoutes: what the server may answer to a request in the current
\* state (one outcome, but for the list, whose rows may come in any order
\* the select allows)
Serve(route, authHeader, id, body, salt) ==
    LET g == Gate(route, authHeader, now)
    IN  IF ~g.next THEN {Rejected(g)}
        ELSE CASE route = "register" ->
                    {registerHandler(body, users, projects, projectSeq, now, salt)}
               [] route = "login" ->
                    {loginHandler(body, users, projects, projectSeq, now)}
               [] route = "currentUser" ->
                    {currentUserHandler(g.user, users, projects, projectSeq)}
               [] route = "listProjects" ->
                    listProjectsHandler(g.user, users, projects, projectSeq)
               [] route = "projectStats" ->
                    {projectStatsHandler(g.user, users, projects, projectSeq)}
               [] route = "createProject" ->
                    {createProjectHandler(g.user, body, users, projects, projectSeq, now)}
               [] route = "getProject" ->
                    {getProjectHandler(g.user, id, users, projects, projectSeq)}
               [] route = "updateProject" ->
                    {updateProjectHandler(g.user, id, body, users, projects, projectSeq, now)}
               [] route = "deleteProject" ->
                    {deleteProjectHandler(g.user, id, users, projects, projectSeq)}

\* a request as the routes see it: the route, what the gate made of its
\* authorization header (the err of jwt.verify, whose token it verified),
\* the :id, the body
Request(route, authHeader, id, body) ==
    LET g == Gate(route, authHeader, now)
    IN  [route |-> route, gate |-> g.gate,
         err |-> IF g.gate = "invalid" THEN jwtError(authHeader[2], JWT_SECRET, now)
                 ELSE "none",
         userId |-> IF g.gate = "verified" THEN g.user.userId ELSE NoId,
         id |-> id, body |-> body]

\* no request is being handled
Idle ==
    [route |-> "none", gate |-> "open", err |-> "none", userId |-> NoId, id |-> NoId,
     body |-> NoBody]

Snapshot(U, P, n) == [users |-> U, projects |-> P, seq |-> n]

\* the registration handlers that may be running at once
Slots == 1..MaxInflight

\* a slot no handler is running in
Free == [pc |-> "free", route |-> "none", userId |-> NoId, id |-> NoId,
         body |-> NoBody, fresh |-> FALSE, hashedPassword |-> Null,
         res |-> Json(0, NoBody)]

\* the server takes a request and answers it with one of its outcomes
Handle(route, authHeader, id, body, salt) ==
    /\ req = Idle
    /\ \E o \in Serve(route, authHeader, id, body, salt) :
        /\ req' = Request(route, authHeader, id, body)
        /\ res' = o.res
        /\ before' = Snapshot(users, projects, projectSeq)
        /\ users' = o.users
        /\ projects' = o.projects
        /\ projectSeq' = o.seq
        /\ calls' = o.calls
        /\ registered' =
              IF route = "register" /\ o.res.status = 201
              THEN registered \cup {[email |-> body.email, password |-> body.password,
                                     id |-> o.res.body.user.id]}
              ELSE registered
    /\ UNCHANGED <<now, inflight>>
    /\ UNCHANGED clientVars

\* tokens register or login issue to a stored user: the one issued when the
\* user registered, and one issued just now
IssuedTokens ==
    {jwtSign([userId |-> u.id, email |-> u.email], JWT_SECRET, iat) :
        u \in users, iat \in {now}} \cup
    {jwtSign([userId |-> u.id, email |-> u.email], JWT_SECRET, u.createdAt) : u \in users}

\* tokens for a stored user signed with another secret
ForgedTokens ==
    {jwtSign([userId |-> u.id, email |-> u.email], "another-secret", now) : u \in users}

\* authorization headers a client may send: none, "Bearer" alone, "Bearer "
\* and an empty token, a string that is no JWT, a forged and an issued token
Headers ==
    {NoHeader, <<"Bearer">>, <<"Bearer", EmptyToken>>, <<"Bearer", MalformedToken>>}
    \cup {<<"Bearer", token>> : token \in IssuedTokens \cup ForgedTokens}

\* headers sent along with register and login
OpenHeaders == {NoHeader, <<"Bearer", MalformedToken>>}

Register(authHeader, body, salt) == Handle("register", authHeader, NoId, body, salt)

Login(authHeader, body) == Handle("login", authHeader, NoId, body, "")

CurrentUser(authHeader) == Handle("currentUser", authHeader, NoId, NoBody, "")

ListProjects(authHeader) == Handle("listProjects", authHeader, NoId, NoBody, "")

ProjectStats(authHeader) == Handle("projectStats", authHeader, NoId, NoBody, "")

CreateProject(authHeader, body) ==
    /\ projectSeq < MaxProjects
    /\ Handle("createProject", authHeader, NoId, body, "")

GetProject(authHeader, id) == Handle("getProject", authHeader, id, NoBody, "")

UpdateProject(authHeader, id, body) == Handle("updateProject", authHeader, id, body, "")

DeleteProject(authHeader, id) == Handle("deleteProject", authHeader, id, NoBody, "")

\* the response has gone out: the request is over
Deliver ==
    /\ req # Idle
    /\ req' = Idle
    /\ res' = Json(0, NoBody)
    /\ calls' = <<>>
    /\ before' = Snapshot(users, projects, projectSeq)
    /\ UNCHANGED <<users, projects, projectSeq, now, registered, inflight>>
    /\ UNCHANGED clientVars

\* time passes between requests: the clock is read at instants one token
\* lifetime apart, and any number of requests arrive at an instant
Tick ==
    /\ req = Idle
    /\ now < MaxTicks * ExpiresIn
    /\ now' = now + ExpiresIn
    /\ UNCHANGED <<users, projects, projectSeq, req, res, calls, before, registered,
                   inflight>>
    /\ UNCHANGED clientVars

-----------------------------------------------------------------------------
(* The browser client's state: the consumers of useAuth                    *)
(* (unnamed/part_002:396-479), the authToken entry of localStorage         *)
(* (client/src/lib/auth.ts) and the query cache with the three queries of  *)
(* useAuth and the Dashboard.                                              *)

\* the mounted consumers of useAuth: the page shown (Login, Register or
\* Dashboard) and a component that stays mounted while the pages change
Hooks == {"page", "app"}

Pages == {"login", "register", "dashboard"}

\* a token state or authToken entry of null; a token tok is held as <<tok>>
NoToken == <<>>

UserKey == "/api/auth/user"
ProjectsKey == "/api/projects"
StatsKey == "/api/projects/stats"

QueryKeys == {UserKey, ProjectsKey, StatsKey}

\* the queries of the Dashboard
DashboardKeys == {ProjectsKey, StatsKey}

\* the one mutation the client may have in flight
MutationKey == "mutation"

\* a query that has no data: data is <<>> for undefined or null, <<v>> for v
Absent == [status |-> "pending", data |-> <<>>, invalid |-> FALSE]

\* no request in flight
NoFlight ==
    [on |-> FALSE, route |-> "none", header |-> NoHeader, id |-> NoId, body |-> NoBody,
     hook |-> "none", old |-> FALSE]

NoStep == [event |-> "none", key |-> "none", hook |-> "none", status |-> 0, token |-> NoToken]

\* the page is loaded with an empty localStorage; the effects of the mount
\* have run (removeItem of an absent entry)
ClientInit ==
    /\ localStorage = NoToken
    /\ tokens = [h \in Hooks |-> NoToken]
    /\ effects = {}
    /\ page = "login"
    /\ cache = [k \in QueryKeys |-> Absent]
    /\ flight = [k \in QueryKeys \cup {MutationKey} |-> NoFlight]
    /\ last = NoStep
    /\ auth = [event |-> "none", token |-> NoToken]
    /\ loggedOut = {}

Init ==
    /\ users = {}
    /\ projects = {}
    /\ projectSeq = 0
    /\ now = 0
    /\ req = Idle
    /\ res = Json(0, NoBody)
    /\ calls = <<>>
    /\ before = Snapshot({}, {}, 0)
    /\ registered = {}
    /\ inflight = [s \in Slots |-> Free]
    /\ ClientInit

Next ==
    \/ \E h \in OpenHeaders, body \in RegisterBodies, salt \in Salts : Register(h, body, salt)
    \/ \E h \in OpenHeaders, body \in LoginBodies : Login(h, body)
    \/ \E h \in Headers : CurrentUser(h)
    \/ \E h \in Headers : ListProjects(h)
    \/ \E h \in Headers : ProjectStats(h)
    \/ \E h \in Headers, body \in ProjectBodies : CreateProject(h, body)
    \/ \E h \in Headers, id \in ProjectIds : GetProject(h, id)
    \/ \E h \in Headers, id \in ProjectIds, body \in ProjectBodies : UpdateProject(h, id, body)
    \/ \E h \in Headers, id \in ProjectIds : DeleteProject(h, id)
    \/ Deliver
    \/ Tick

Spec == Init /\ [][Next]_vars

-----------------------------------------------------------------------------
(* POST /api/auth/register, await by await: the handler runs up to its    *)
(* next await in one step, and the steps of the handlers of concurrent    *)
(* requests interleave. The select and the insert are each one statement  *)
(* of the database; the insert checks the unique constraint on email.     *)

\* a handler has answered: its slot keeps the response until it is sent
Answered(slot, response) == [slot EXCEPT !.pc = "done", !.res = response]

\* registerSchema.parse(req.body), then the select is sent
RegisterParse(s, body) ==
    /\ inflight[s].pc = "free"
    /\ LET issues == registerSchema(body)
           arrived == [Free EXCEPT !.body = body,
                          !.fresh = Has(body, "email")
                                    /\ getUserByEmail(users, body.email) = {}]
       IN  inflight' = [inflight EXCEPT ![s] =
                           IF issues # <<>>
                           THEN Answered(arrived, Json(400, Message(issues[1])))
                           ELSE [arrived EXCEPT !.pc = "lookup"]]
    /\ UNCHANGED <<users, projects, projectSeq, now, req, res, calls, before, registered>>
    /\ UNCHANGED clientVars

\* await storage.getUserByEmail(...); if (existingUser) return 400
RegisterLookup(s) ==
    /\ inflight[s].pc = "lookup"
    /\ LET existingUser == getUserByEmail(users, inflight[s].body.email)
       IN  inflight' = [inflight EXCEPT ![s] =
                           IF existingUser # {}
                           THEN Answered(@, Json(400, Message("Email já está em uso")))
                           ELSE [@ EXCEPT !.pc = "hash"]]
    /\ UNCHANGED <<users, projects, projectSeq, now, req, res, calls, before, registered>>
    /\ UNCHANGED clientVars

\* await bcrypt.hash(validatedData.password, 10)
RegisterHash(s, salt) ==
    /\ inflight[s].pc = "hash"
    /\ inflight' = [inflight EXCEPT ![s] =
                       [@ EXCEPT !.pc = "insert",
                                 !.hashedPassword = bcryptHash(inflight[s].body.password, salt)]]
    /\ UNCHANGED <<users, projects, projectSeq, now, req, res, calls, before, registered>>
    /\ UNCHANGED clientVars

\* await storage.createUser(...); jwt.sign; 201 -- or the catch block: the
\* error of the insert has no `errors`, so 500
RegisterInsert(s) ==
    /\ inflight[s].pc = "insert"
    /\ LET body == inflight[s].body
           created == createUser(users, [name |-> body.name, email |-> body.email,
                                         password |-> inflight[s].hashedPassword], now)
           user == created.row
           token == jwtSign([userId |-> user.id, email |-> user.email], JWT_SECRET, now)
       IN  IF created.threw
           THEN /\ inflight' = [inflight EXCEPT ![s] =
                                   Answered(@, Json(500, Message("Erro interno do servidor")))]
                /\ UNCHANGED users
           ELSE /\ inflight' = [inflight EXCEPT ![s] =
                                   Answered(@, Json(201, [token |-> token,
                                                          user |-> PublicUser(user)]))]
                /\ users' = created.rows
    /\ UNCHANGED <<projects, projectSeq, now, req, res, calls, before, registered>>
    /\ UNCHANGED clientVars

\* the response is sent
RegisterRespond(s) ==
    /\ inflight[s].pc = "done"
    /\ inflight' = [inflight EXCEPT ![s] = Free]
    /\ UNCHANGED <<users, projects, projectSeq, now, req, res, calls, before, registered>>
    /\ UNCHANGED clientVars

RaceNext ==
    \/ \E s \in Slots, body \in RegisterBodies : RegisterParse(s, body)
    \/ \E s \in Slots : RegisterLookup(s)
    \/ \E s \in Slots, salt \in Salts : RegisterHash(s, salt)
    \/ \E s \in Slots : RegisterInsert(s)
    \/ \E s \in Slots : RegisterRespond(s)

SpecRace == Init /\ [][RaceNext]_vars

-----------------------------------------------------------------------------
(* PUT and DELETE /api/projects/:id of concurrent requests. Each handler   *)
(* has one await, its one statement of the database: the gate and the     *)
(* parse run when the request arrives, the statement some time later, and *)
(* the statements of concurrent requests come in any order (the store     *)
(* serializes the writes of a row).                                       *)

\* the two requests that race for a project
Pair == {s \in Slots : s <= 2}

\* the bodies of the racing updates; the projects are created from the others
RaceBodies == {body \in ProjectBodies : Has(body, "description")}

\* the users and projects are set up by requests handled one at a time
RaceSetup ==
    /\ \A s \in Slots : inflight[s] = Free
    /\ \/ \E body \in RegisterBodies, salt \in Salts : Register(NoHeader, body, salt)
       \/ \E u \in users, body \in ProjectBodies \ RaceBodies :
              CreateProject(<<"Bearer", jwtSign([userId |-> u.id, email |-> u.email],
                                                JWT_SECRET, now)>>, body)
       \/ Deliver

\* authenticateToken, then the handler up to its await
ProjectArrive(s, route, authHeader, id, body) ==
    /\ req = Idle
    /\ inflight[s].pc = "free"
    /\ \A r \in Slots : r < s => inflight[r].pc # "free"
    /\ LET g == Gate(route, authHeader, now)
           arrived == [Free EXCEPT !.route = route, !.id = id, !.body = body]
       IN  inflight' = [inflight EXCEPT ![s] =
              IF ~g.next THEN Answered(arrived, g.res)
              ELSE IF route = "updateProject" /\ projectSchema(body) # <<>>
              THEN Answered([arrived EXCEPT !.userId = g.user.userId],
                            Json(400, Message(projectSchema(body)[1])))
              ELSE [arrived EXCEPT
                       !.pc = "statement",
                       !.userId = g.user.userId,
                       !.fresh = \E p \in projects : p.id = id /\ p.userId = g.user.userId]]
    /\ UNCHANGED <<users, projects, projectSeq, now, req, res, calls, before, registered>>
    /\ UNCHANGED clientVars

\* the statement runs and the handler answers with what it returned
ProjectStatement(s) ==
    /\ inflight[s].pc = "statement"
    /\ LET claims == [userId |-> inflight[s].userId]
           o == IF inflight[s].route = "updateProject"
                THEN updateProjectHandler(claims, inflight[s].id, inflight[s].body,
                                          users, projects, projectSeq, now)
                ELSE deleteProjectHandler(claims, inflight[s].id, users, projects,
                                          projectSeq)
       IN  /\ projects' = o.projects
           /\ inflight' = [inflight EXCEPT ![s] = Answered(@, o.res)]
    /\ UNCHANGED <<users, projectSeq, now, req, res, calls, before, registered>>
    /\ UNCHANGED clientVars

\* the headers of the racing requests: none, or a token issued to a user
RaceHeaders ==
    {NoHeader} \cup {<<"Bearer", jwtSign([userId |-> u.id, email |-> u.email],
                                         JWT_SECRET, now)>> : u \in users}

ProjectRaceNext ==
    \/ RaceSetup
    \/ \E s \in Pair, h \in RaceHeaders, id \in ProjectIds :
           ProjectArrive(s, "deleteProject", h, id, NoBody)
    \/ \E s \in Pair, h \in RaceHeaders, id \in ProjectIds, body \in RaceBodies :
           ProjectArrive(s, "updateProject", h, id, body)
    \/ \E s \in Pair : ProjectStatement(s)
    \/ \E s \in Pair : RegisterRespond(s)

SpecProjectRace == Init /\ [][ProjectRaceNext]_vars

-----------------------------------------------------------------------------
(* The browser client. A request of the client is two steps: it is sent    *)
(* with the header read at that moment, and it is answered, which is the   *)
(* server handling it and the client's callback running on the response.   *)
(* React runs the pending effects of a render before the client does       *)
(* anything else, so every other step waits for effects = {}.              *)

getAuthToken == localStorage

\* mutant: no header is built from the token
getAuthHeadersNone == NoHeader

getAuthHeaders ==
    IF getAuthToken # NoToken THEN <<"Bearer", getAuthToken[1]>> ELSE NoHeader

\* isAuthenticated: !!token && !!user
isAuthenticated(h) == tokens[h] # NoToken /\ cache[UserKey].data # <<>>

\* response.ok
ResponseOk(status) == status \in 200..299

\* mutant: the effect writes a token and never removes the entry
useAuthEffectKeep(tok, stored) == IF tok # NoToken THEN tok ELSE stored

\* the effect of useAuth: the authToken entry after it ran
useAuthEffect(tok, stored) == IF tok # NoToken THEN tok ELSE NoToken

\* setToken(tok) in instance h: the state, and the effect its change schedules
SetToken(h, tok) == [tokens EXCEPT ![h] = tok]

Scheduled(h, tok) == IF tokens[h] # tok THEN effects \cup {h} ELSE effects

Step(event, key, h, status) ==
    [event |-> event, key |-> key, hook |-> h, status |-> status, token |-> tokens[h]]

RunEffect(h) ==
    /\ h \in effects
    /\ localStorage' = useAuthEffect(tokens[h], localStorage)
    /\ effects' = effects \ {h}
    /\ last' = Step("effect", "none", h, 0)
    /\ UNCHANGED <<tokens, page, cache, flight, auth, loggedOut>>
    /\ UNCHANGED <<users, projects, projectSeq, now, req, res, calls, before, registered,
                   inflight>>

\* a query is fetched when it has no data yet or was invalidated
NeedsFetch(k) == cache[k].status = "pending" \/ cache[k].invalid

Sent(route, header, id, body, h) ==
    [on |-> TRUE, route |-> route, header |-> header, id |-> id, body |-> body,
     hook |-> h,
     old |-> Len(header) = 2 /\ <<header[2]>> \in loggedOut]

\* the user query of instance h: enabled: !!token, the header from its state
FetchUser(h) ==
    /\ effects = {}
    /\ tokens[h] # NoToken
    /\ ~flight[UserKey].on
    /\ NeedsFetch(UserKey)
    /\ flight' = [flight EXCEPT ![UserKey] =
                     Sent("currentUser", <<"Bearer", tokens[h][1]>>, NoId, NoBody, h)]
    /\ last' = Step("sent", UserKey, h, 0)
    /\ UNCHANGED <<localStorage, tokens, effects, page, cache, auth, loggedOut>>
    /\ UNCHANGED <<users, projects, projectSeq, now, req, res, calls, before, registered,
                   inflight>>

\* mutant: any failure of the lookup drops the token and yields null
userQueryFnAnyFailure(status) ==
    [setToken |-> ~ResponseOk(status), threw |-> FALSE]

\* queryFn of the user query on a response: whether it calls setToken(null)
\* (and returns null), and whether it throws
userQueryFn(status) ==
    [setToken |-> ~ResponseOk(status) /\ status \in {401, 403},
     threw |-> ~ResponseOk(status) /\ status \notin {401, 403}]

\* what GET /api/auth/user may answer: the route's outcome, or 500 from the
\* handler's catch when the store fails
UserAnswers(header) ==
    {o.res : o \in Serve("currentUser", header, NoId, NoBody, "")}
    \cup {Json(500, Message("Erro interno do servidor"))}

AnswerUser ==
    /\ effects = {}
    /\ flight[UserKey].on
    /\ \E response \in UserAnswers(flight[UserKey].header) :
        LET h == flight[UserKey].hook
            r == userQueryFn(response.status)
        IN  /\ tokens' = IF r.setToken THEN SetToken(h, NoToken) ELSE tokens
            /\ effects' = IF r.setToken THEN Scheduled(h, NoToken) ELSE effects
            /\ cache' = [cache EXCEPT ![UserKey] =
                  IF r.threw THEN [@ EXCEPT !.status = "error"]
                  ELSE [status |-> "success",
                        data |-> IF r.setToken THEN <<>> ELSE <<response.body>>,
                        invalid |-> FALSE]]
            /\ last' = Step("answered", UserKey, h, response.status)
            /\ auth' = IF r.setToken THEN [event |-> "rejected", token |-> tokens[h]]
                       ELSE auth
    /\ flight' = [flight EXCEPT ![UserKey] = NoFlight]
    /\ UNCHANGED <<localStorage, page, loggedOut>>
    /\ UNCHANGED <<users, projects, projectSeq, now, req, res, calls, before, registered,
                   inflight>>

RouteOf(k) == IF k = ProjectsKey THEN "listProjects" ELSE "projectStats"

\* a query of the Dashboard: the header is getAuthHeaders() at the fetch
FetchQuery(k) ==
    /\ page = "dashboard"
    /\ effects = {}
    /\ ~flight[k].on
    /\ NeedsFetch(k)
    /\ flight' = [flight EXCEPT ![k] = Sent(RouteOf(k), getAuthHeaders, NoId, NoBody, "page")]
    /\ last' = Step("sent", k, "page", 0)
    /\ UNCHANGED <<localStorage, tokens, effects, page, cache, auth, loggedOut>>
    /\ UNCHANGED <<users, projects, projectSeq, now, req, res, calls, before, registered,
                   inflight>>

AnswerQuery(k) ==
    /\ effects = {}
    /\ flight[k].on
    /\ \E o \in Serve(flight[k].route, flight[k].header, NoId, NoBody, "") :
        /\ cache' = [cache EXCEPT ![k] =
              IF ResponseOk(o.res.status)
              THEN [status |-> "success", data |-> <<o.res.body>>, invalid |-> FALSE]
              ELSE [@ EXCEPT !.status = "error", !.invalid = FALSE]]
        /\ last' = Step("answered", k, "page", o.res.status)
    /\ flight' = [flight EXCEPT ![k] = NoFlight]
    /\ UNCHANGED <<localStorage, tokens, effects, page, auth, loggedOut>>
    /\ UNCHANGED <<users, projects, projectSeq, now, req, res, calls, before, registered,
                   inflight>>

\* apiRequest(method, url, data) of lib/queryClient: the request goes out
\* with the token the client holds
apiRequest(route, id, body, h) == Sent(route, getAuthHeaders, id, body, h)

\* apiRequest rejects when the response is not ok
apiRequestThrows(status) == ~ResponseOk(status)

\* the pages the mutations are offered on
PageOf(route) ==
    CASE route = "login" -> "login"
      [] route = "register" -> "register"
      [] OTHER -> "dashboard"

\* the ids of the projects the Dashboard shows
CachedIds ==
    IF cache[ProjectsKey].data = <<>> THEN {}
    ELSE {cache[ProjectsKey].data[1][i].id : i \in DOMAIN cache[ProjectsKey].data[1]}

\* mutate(...) of loginMutation, registerMutation, createProjectMutation,
\* updateProjectMutation and deleteProjectMutation
Mutate(route, id, body) ==
    /\ page = PageOf(route)
    /\ effects = {}
    /\ ~flight[MutationKey].on
    /\ route = "createProject" => projectSeq < MaxClientProjects
    /\ route \in {"updateProject", "deleteProject"} => id \in CachedIds
    /\ flight' = [flight EXCEPT ![MutationKey] = apiRequest(route, id, body, "page")]
    /\ last' = Step("sent", route, "page", 0)
    /\ UNCHANGED <<localStorage, tokens, effects, page, cache, auth, loggedOut>>
    /\ UNCHANGED <<users, projects, projectSeq, now, req, res, calls, before, registered,
                   inflight>>

\* mutant: the queries are invalidated in onSettled, whatever the outcome
InvalidatedOnSettled(route, ok) ==
    IF route \in {"createProject", "updateProject", "deleteProject"}
    THEN DashboardKeys ELSE {}

\* the queries the mutation's onSuccess invalidates
Invalidated(route, ok) ==
    IF ok /\ route \in {"createProject", "updateProject", "deleteProject"}
    THEN DashboardKeys ELSE {}

\* the server handles the mutation and onSuccess or onError runs
AnswerMutation ==
    /\ effects = {}
    /\ flight[MutationKey].on
    /\ \E salt \in Salts :
       \E o \in Serve(flight[MutationKey].route, flight[MutationKey].header,
                      flight[MutationKey].id, flight[MutationKey].body, salt) :
        LET route == flight[MutationKey].route
            h == flight[MutationKey].hook
            ok == ~apiRequestThrows(o.res.status)
            signedIn == ok /\ route \in {"login", "register"}
            stale == Invalidated(route, ok)
        IN  /\ users' = o.users
            /\ projects' = o.projects
            /\ projectSeq' = o.seq
            /\ tokens' = IF signedIn THEN SetToken(h, <<o.res.body.token>>) ELSE tokens
            /\ effects' = IF signedIn THEN Scheduled(h, <<o.res.body.token>>) ELSE effects
            /\ cache' = [k \in QueryKeys |->
                  IF signedIn /\ k = UserKey
                  THEN [status |-> "success", data |-> <<o.res.body.user>>,
                        invalid |-> FALSE]
                  ELSE IF k \in stale THEN [cache[k] EXCEPT !.invalid = TRUE]
                  ELSE cache[k]]
            /\ flight' = [k \in QueryKeys \cup {MutationKey} |->
                  IF k = MutationKey \/ k \in stale THEN NoFlight ELSE flight[k]]
            /\ last' = Step("answered", route, h, o.res.status)
            /\ auth' = IF signedIn THEN [event |-> "login", token |-> <<o.res.body.token>>]
                       ELSE auth
            /\ loggedOut' = IF signedIn THEN loggedOut \ {<<o.res.body.token>>}
                            ELSE loggedOut
    /\ UNCHANGED <<localStorage, page>>
    /\ UNCHANGED <<now, req, res, calls, before, registered, inflight>>

\* logout() of the Dashboard's useAuth: setToken(null); queryClient.clear()
Logout ==
    /\ page = "dashboard"
    /\ effects = {}
    /\ tokens' = SetToken("page", NoToken)
    /\ effects' = Scheduled("page", NoToken)
    /\ cache' = [k \in QueryKeys |-> Absent]
    /\ flight' = [k \in QueryKeys \cup {MutationKey} |->
                     IF k = MutationKey THEN flight[k] ELSE NoFlight]
    /\ last' = Step("logout", "none", "page", 0)
    /\ auth' = [event |-> "logout", token |-> tokens["page"]]
    /\ loggedOut' = loggedOut \cup ({tokens["page"], localStorage} \ {NoToken})
    /\ UNCHANGED <<localStorage, page>>
    /\ UNCHANGED <<users, projects, projectSeq, now, req, res, calls, before, registered,
                   inflight>>

\* the client has nothing in flight and no effect to run
Quiet == effects = {} /\ \A k \in QueryKeys \cup {MutationKey} : ~flight[k].on

\* another page is shown: its useAuth mounts with the token of localStorage
\* (the effect of the mount writes back what was read). A page is left when
\* the client's requests are answered.
Navigate(p) ==
    /\ p # page
    /\ Quiet
    /\ page' = p
    /\ tokens' = SetToken("page", localStorage)
    /\ last' = Step("navigate", "none", "page", 0)
    /\ UNCHANGED <<localStorage, effects, cache, flight, auth, loggedOut>>
    /\ UNCHANGED <<users, projects, projectSeq, now, req, res, calls, before, registered,
                   inflight>>

\* the page is loaded again: every useAuth mounts with the token of
\* localStorage and the QueryClient is a new one
Reload ==
    /\ Quiet
    /\ tokens' = [h \in Hooks |-> localStorage]
    /\ cache' = [k \in QueryKeys |-> Absent]
    /\ flight' = [k \in QueryKeys \cup {MutationKey} |-> NoFlight]
    /\ last' = Step("reload", "none", "page", 0)
    /\ auth' = [event |-> "reload", token |-> localStorage]
    /\ UNCHANGED <<localStorage, effects, page, loggedOut>>
    /\ UNCHANGED <<users, projects, projectSeq, now, req, res, calls, before, registered,
                   inflight>>

\* what the forms of the client submit
ClientRegisterBodies ==
    {body \in RegisterBodies :
        /\ Has(body, "name") /\ Has(body, "confirmPassword")
        /\ body.name = "Ana" /\ body.email = "ana@x.com"
        /\ body.password = "secret1" /\ body.confirmPassword # ""}

ClientLoginBodies ==
    {body \in LoginBodies :
        /\ Has(body, "email") /\ Has(body, "password")
        /\ body.email = "ana@x.com" /\ body.password \in {"secret1", "secret2"}}

ClientProjectBodies == {body \in RaceBodies : projectSchema(body) = <<>>}

ClientNext ==
    \/ \E h \in Hooks : RunEffect(h)
    \/ \E h \in Hooks : FetchUser(h)
    \/ AnswerUser
    \/ \E k \in DashboardKeys : FetchQuery(k)
    \/ \E k \in DashboardKeys : AnswerQuery(k)
    \/ \E body \in ClientRegisterBodies : Mutate("register", NoId, body)
    \/ \E body \in ClientLoginBodies : Mutate("login", NoId, body)
    \/ \E body \in ClientProjectBodies : Mutate("createProject", NoId, body)
    \/ \E id \in ProjectIds, body \in ClientProjectBodies : Mutate("updateProject", id, body)
    \/ \E id \in ProjectIds : Mutate("deleteProject", id, NoBody)
    \/ AnswerMutation
    \/ Logout
    \/ \E p \in Pages : Navigate(p)
    \/ Reload
    \/ Quiet /\ Tick

SpecClient == Init /\ [][ClientNext]_vars

-----------------------------------------------------------------------------
(* Properties. A state with req # Idle is the moment a response is out:    *)
(* req and res are the request and its response, before the tables as the  *)
(* request found them, users and projects the tables as it left them.      *)
(* A state with req = Idle is one in which the next request arrives: what  *)
(* the server would answer there is given by Serve.                        *)

\* the claims jwt.sign puts into the token of user u
ClaimsOf(u) == [userId |-> u.id, email |-> u.email]

\* the header of a client that holds a token just issued to user u
BearerOf(u) == <<"Bearer", jwtSign(ClaimsOf(u), JWT_SECRET, now)>>

\* the responses the server may give to a request
Responses(route, authHeader, id, body) ==
    {o.res : o \in Serve(route, authHeader, id, body, "")}

ValidProjectBodies == {b \in ProjectBodies : projectSchema(b) = <<>>}

\* the :id values of requests, and one id no project ever gets
AnyProjectIds == ProjectIds \cup {ProjectId(MaxProjects + 1)}

\* the ids of projects that were created and are gone from table P, when n
\* ids have been drawn
Deleted(P, n) == {ProjectId(k) : k \in 1..n} \ {p.id : p \in P}

\* C1: a project of user A is never in the response of a list or get request
\* made with the verified token of another user B, and no request made with
\* B's token changes or removes it.
C1_OwnershipIsolation ==
    \A p \in before.projects :
        (req.gate = "verified" /\ req.userId # p.userId) =>
            /\ p \in projects
            /\ (req.route = "listProjects" /\ res.status = 200) =>
                   \A i \in DOMAIN res.body : res.body[i].id # p.id
            /\ (req.route = "getProject" /\ res.status = 200) => res.body.id # p.id

\* C1 witness: B's update, with a well-formed body, of A's project was
\* answered 404 and the project is as it was.
C1_Witness ==
    /\ req.route = "updateProject"
    /\ req.gate = "verified"
    /\ projectSchema(req.body) = <<>>
    /\ res.status = 404
    /\ \E p \in before.projects : p.id = req.id /\ p.userId # req.userId /\ p \in projects

\* C2: for get, update with a well-formed body, and delete, the response to
\* a user for an id of another user's project is the response for an id no
\* project has: 404 with the same message.
C2_NotFoundConflation ==
    req = Idle => \A u \in users : \A foreign, absent \in AnyProjectIds :
        ( /\ \E p \in projects : p.id = foreign /\ p.userId # u.id
          /\ \A p \in projects : p.id # absent ) =>
            /\ Responses("getProject", BearerOf(u), foreign, NoBody)
                   = Responses("getProject", BearerOf(u), absent, NoBody)
            /\ Responses("deleteProject", BearerOf(u), foreign, NoBody)
                   = Responses("deleteProject", BearerOf(u), absent, NoBody)
            /\ \A b \in ValidProjectBodies :
                   Responses("updateProject", BearerOf(u), foreign, b)
                       = Responses("updateProject", BearerOf(u), absent, b)
            /\ \A r \in Responses("getProject", BearerOf(u), foreign, NoBody)
                        \cup Responses("deleteProject", BearerOf(u), foreign, NoBody)
                        \cup UNION {Responses("updateProject", BearerOf(u), foreign, b) :
                                       b \in ValidProjectBodies} :
                   r.status = 404

\* C2 witness: a delete of another user's existing project was answered 404.
C2_Witness ==
    /\ req.route = "deleteProject"
    /\ req.gate = "verified"
    /\ res.status = 404
    /\ \E p \in projects : p.id = req.id /\ p.userId # req.userId

\* C3 as stated: every registration request whose email is that of a stored
\* user gets the duplicate-email response, creates no user, issues no token.
C3_Original ==
    ( /\ req.route = "register"
      /\ Has(req.body, "email")
      /\ \E u \in before.users : u.email = req.body.email ) =>
        /\ res = Json(400, Message("Email já está em uso"))
        /\ users = before.users
        /\ ~Has(res.body, "token")

\* C3 amended: every registration request with a body the registration
\* schema accepts and the email of a stored user gets the duplicate-email
\* response (400), creates no user and issues no token.
C3_DuplicateRegistration ==
    ( /\ req.route = "register"
      /\ registerSchema(req.body) = <<>>
      /\ \E u \in before.users : u.email = req.body.email ) =>
        /\ res = Json(400, Message("Email já está em uso"))
        /\ users = before.users
        /\ ~Has(res.body, "token")

\* C3 witness: a well-formed registration with a stored email was answered.
C3_Witness ==
    /\ req.route = "register"
    /\ registerSchema(req.body) = <<>>
    /\ \E u \in before.users : u.email = req.body.email
    /\ res.status = 400

C5_UniformLoginFailure ==
    req = Idle => \A wrong, unknown \in LoginBodies :
        ( /\ loginSchema(wrong) = <<>>
          /\ loginSchema(unknown) = <<>>
          /\ \E u \in users : u.email = wrong.email
          /\ \A c \in registered : ~(c.email = wrong.email /\ c.password = wrong.password)
          /\ \A u \in users : u.email # unknown.email ) =>
            /\ Responses("login", NoHeader, NoId, wrong)
                   = Responses("login", NoHeader, NoId, unknown)
            /\ \A r \in Responses("login", NoHeader, NoId, wrong) : r.status = 401

\* C5 witness: a login with a stored email and a password that user never
\* registered with was answered 401, while another email is not stored.
C5_Witness ==
    /\ req.route = "login"
    /\ loginSchema(req.body) = <<>>
    /\ res.status = 401
    /\ \E u \in users : u.email = req.body.email
    /\ \E b \in LoginBodies :
           loginSchema(b) = <<>> /\ \A u \in users : u.email # b.email

\* the requests a protected route may get: its :id and body
ProtectedRequests ==
    [route : {"currentUser", "listProjects", "projectStats"}, id : {NoId}, body : {NoBody}]
    \cup [route : {"createProject"}, id : {NoId}, body : ProjectBodies]
    \cup [route : {"getProject", "deleteProject"}, id : ProjectIds, body : {NoBody}]
    \cup [route : {"updateProject"}, id : ProjectIds, body : ProjectBodies]

\* a bearer token can be extracted from the header: split(' ')[1] is there
\* and not empty
Extracted(authHeader) == Len(authHeader) >= 2 /\ authHeader[2] # EmptyToken

\* C6: a request to a protected route without an extractable token is
\* answered 401 by the gate and nothing else happens; one whose token fails
\* verification (malformed, wrong secret, expired) is answered 403 and
\* nothing else happens; otherwise the handler runs as the user the token
\* names.
C6_GateOutcomes ==
    req = Idle =>
        \A r \in ProtectedRequests, h \in Headers :
            \A o \in Serve(r.route, h, r.id, r.body, "") :
                IF ~Extracted(h)
                THEN o = Out(Json(401, Message("Token de acesso requerido")),
                             users, projects, projectSeq, <<>>)
                ELSE IF ~jwtVerify(h[2], JWT_SECRET, now)
                THEN o = Out(Json(403, Message("Token inválido")),
                             users, projects, projectSeq, <<>>)
                ELSE /\ o.res.status \notin {401, 403}
                     /\ r.route = "currentUser" =>
                            /\ o.res.status = 200
                            /\ o.res.body.id = h[2].payload.userId
                            /\ o.res.body.email = h[2].payload.email
                     /\ r.route = "listProjects" =>
                            \A i \in DOMAIN o.res.body :
                                o.res.body[i].userId = h[2].payload.userId
                     /\ (r.route = "createProject" /\ o.res.status = 201) =>
                            o.res.body.userId = h[2].payload.userId
                     /\ (r.route \in {"getProject", "updateProject"} /\ o.res.status = 200) =>
                            o.res.body.userId = h[2].payload.userId

\* C6 witness: a delete of an existing project with a token that failed
\* verification was answered 403, after a token lifetime had passed.
C6_Witness ==
    /\ req.route = "deleteProject"
    /\ req.gate = "invalid"
    /\ res.status = 403
    /\ now >= ExpiresIn
    /\ \E p \in projects : p.id = req.id

\* C7: a request to a project route or to the current-user route reads or
\* writes the store only if its token passed verification; register and
\* login are handled without a token.
C7_GateCoverage ==
    req = Idle =>
        /\ \A r \in ProtectedRequests, h \in Headers :
               \A o \in Serve(r.route, h, r.id, r.body, "") :
                   (o.calls # <<>> \/ o.users # users \/ o.projects # projects) =>
                       (Extracted(h) /\ jwtVerify(h[2], JWT_SECRET, now))
        /\ \A b \in RegisterBodies, salt \in Salts :
               Serve("register", NoHeader, NoId, b, salt)
                   = {registerHandler(b, users, projects, projectSeq, now, salt)}
        /\ \A b \in LoginBodies :
               Serve("login", NoHeader, NoId, b, "")
                   = {loginHandler(b, users, projects, projectSeq, now)}

\* C7 witness: a well-formed create request without a token was answered
\* without a storage call.
C7_Witness ==
    /\ req.route = "createProject"
    /\ req.gate = "missing"
    /\ projectSchema(req.body) = <<>>
    /\ calls = <<>>
    /\ res.status = 401

\* the issues of the body of a request to a route that validates one
SchemaIssues(route, body) ==
    CASE route = "register" -> registerSchema(body)
      [] route = "login" -> loginSchema(body)
      [] route \in {"createProject", "updateProject"} -> projectSchema(body)
      [] OTHER -> <<>>

\* C8: a request answered 400, 401, 403 or 404 leaves users and projects as
\* it found them; a body its schema rejects is answered 400 with the first
\* issue's message before any storage call (on a protected route: once the
\* gate has let the request through).
C8_NoWriteOnFailure ==
    /\ res.status \in {400, 401, 403, 404} =>
           users = before.users /\ projects = before.projects
    /\ ( /\ req.gate \in {"open", "verified"}
         /\ SchemaIssues(req.route, req.body) # <<>> ) =>
           /\ res = Json(400, Message(SchemaIssues(req.route, req.body)[1]))
           /\ calls = <<>>

\* C8 witness: the owner's update of a project with a body the schema
\* rejects was answered 400.
C8_Witness ==
    /\ req.route = "updateProject"
    /\ req.gate = "verified"
    /\ res.status = 400
    /\ \E p \in projects : p.id = req.id /\ p.userId = req.userId

\* the row of the project a request names, as the request found it
OldRow == CHOOSE p \in before.projects : p.id = req.id

\* an update of an owned project whose body leaves out the description
PartialUpdate ==
    /\ req.route = "updateProject"
    /\ req.gate = "verified"
    /\ res.status = 200
    /\ ~Has(req.body, "description")

\* C9 as stated: a partial update writes the supplied fields, keeps the
\* others, and sets updatedAt to a value later than the previous one.
C9_Original ==
    PartialUpdate =>
        /\ res.body \in projects
        /\ \A k \in DOMAIN ProjectColumns(req.body) : res.body[k] = ProjectColumns(req.body)[k]
        /\ \A k \in DOMAIN OldRow \ (DOMAIN ProjectColumns(req.body) \cup {"updatedAt"}) :
               res.body[k] = OldRow[k]
        /\ res.body.updatedAt > OldRow.updatedAt

\* C9 amended: a partial update writes the supplied fields, keeps the
\* others, and sets updatedAt to the clock's reading at the update.
C9_PartialUpdate ==
    PartialUpdate =>
        /\ res.body \in projects
        /\ \A k \in DOMAIN ProjectColumns(req.body) : res.body[k] = ProjectColumns(req.body)[k]
        /\ \A k \in DOMAIN OldRow \ (DOMAIN ProjectColumns(req.body) \cup {"updatedAt"}) :
               res.body[k] = OldRow[k]
        /\ res.body.updatedAt = now

\* C9 witness: an update without a description changed the status of a
\* project that has a description.
C9_Witness ==
    /\ PartialUpdate
    /\ OldRow.description = "d"
    /\ OldRow.status # res.body.status

\* C10: the owner's delete of an existing project is answered 204 and the
\* project is gone; a delete of a project that was deleted is answered 404;
\* and no request brings a deleted project back.
C10_DeleteTwice ==
    /\ ( /\ req.route = "deleteProject"
         /\ req.gate = "verified"
         /\ \E p \in before.projects : p.id = req.id /\ p.userId = req.userId ) =>
           /\ res.status = 204
           /\ \A p \in projects : p.id # req.id
    /\ ( /\ req.route = "deleteProject"
         /\ req.gate = "verified"
         /\ req.id \in Deleted(before.projects, before.seq) ) =>
           res.status = 404
    /\ \A id \in Deleted(before.projects, before.seq) : \A p \in projects : p.id # id

\* C10 witness: a delete of a project that was deleted was answered 404.
C10_Witness ==
    /\ req.route = "deleteProject"
    /\ req.gate = "verified"
    /\ req.id \in Deleted(before.projects, before.seq)
    /\ res.status = 404

\* C11: whatever creates, updates and deletes have happened, the stats of
\* every user have total = pendente + andamento + concluido, in the store
\* and in every answer of the stats route.
C11_StatsSum ==
    /\ \A u \in users :
           LET stats == getProjectStats(projects, u.id)
           IN  stats.total = stats.pendente + stats.andamento + stats.concluido
    /\ (req.route = "projectStats" /\ res.status = 200) =>
           res.body.total = res.body.pendente + res.body.andamento + res.body.concluido

\* C11 witness: the stats route answered a user who has a project that is
\* no longer pendente, after a project was deleted.
C11_Witness ==
    /\ req.route = "projectStats"
    /\ res.status = 200
    /\ res.body.total = 1
    /\ res.body.pendente = 0
    /\ Deleted(projects, projectSeq) # {}

\* the projects a request's user owns when the response is out
OwnedNow == {p \in projects : p.userId = req.userId}

\* C12: the stats route answers a verified user with the number of projects
\* that user owns now and, for each status, the number of them with that
\* status; projects of other users are not counted.
C12_StatsContent ==
    (req.route = "projectStats" /\ req.gate = "verified") =>
        /\ res.status = 200
        /\ DOMAIN res.body = {"total", "pendente", "andamento", "concluido"}
        /\ res.body.total = Cardinality(OwnedNow)
        /\ \A st \in Statuses :
               res.body[st] = Cardinality({p \in OwnedNow : p.status = st})

\* C12 witness: a user with one project, pendente, is answered
\* {total: 1, pendente: 1, andamento: 0, concluido: 0} while another user
\* has a project too.
C12_Witness ==
    /\ req.route = "projectStats"
    /\ res = Json(200, [total |-> 1, pendente |-> 1, andamento |-> 0, concluido |-> 0])
    /\ \E p \in projects : p.userId # req.userId

\* C13: no two stored users have the same email, however the steps of
\* concurrent registrations interleave.
C13_EmailUniqueness ==
    \A u1, u2 \in users : u1.email = u2.email => u1 = u2

\* C13 witness: two registrations with the same email both passed the
\* existence check; one has inserted and the other is about to.
C13_Witness ==
    \E s, t \in Slots :
        /\ s # t
        /\ inflight[s].pc = "done"
        /\ inflight[s].res.status = 201
        /\ inflight[t].pc = "insert"
        /\ inflight[t].body.email = inflight[s].body.email

\* two registrations with the same email, stored when neither arrived,
\* whose handlers have both answered
RacedPair(s, t) ==
    /\ s # t
    /\ inflight[s].pc = "done"
    /\ inflight[t].pc = "done"
    /\ registerSchema(inflight[s].body) = <<>>
    /\ registerSchema(inflight[t].body) = <<>>
    /\ inflight[s].body.email = inflight[t].body.email
    /\ inflight[s].fresh
    /\ inflight[t].fresh

\* C14 as stated: of two concurrent registrations with the same new email
\* one is answered 201 and the other 400 with the duplicate-email message.
C14_Original ==
    \A s, t \in Slots :
        (RacedPair(s, t) /\ inflight[s].res.status = 201) =>
            inflight[t].res = Json(400, Message("Email já está em uso"))

\* the messages the three user routes answer a failure with
UserRouteMessages ==
    {"Email já está em uso", "Email ou senha inválidos", "Usuário não encontrado",
     "Erro interno do servidor", "Token de acesso requerido", "Token inválido",
     "Required", "Nome é obrigatório", "Nome deve ter pelo menos 2 caracteres",
     "Email é obrigatório", "Email inválido", "Senha é obrigatória",
     "Senha deve ter pelo menos 6 caracteres", "Confirmação de senha é obrigatória",
     "Senhas não conferem"}

\* C15: every response of register, login and the current-user lookup is
\* either a message, or carries a user object with exactly the fields id,
\* name and email of the stored user (beside it, for register and login,
\* only the token, whose payload is userId, email, iat, exp): the digest and
\* the plaintext password are in none of them.
C15_DigestNeverReturned ==
    req.route \in {"register", "login", "currentUser"} =>
        IF res.status \in {200, 201}
        THEN LET user == IF req.route = "currentUser" THEN res.body ELSE res.body.user
             IN  /\ DOMAIN user = {"id", "name", "email"}
                 /\ \E u \in users :
                        u.id = user.id /\ u.name = user.name /\ u.email = user.email
                 /\ req.route # "currentUser" =>
                        /\ DOMAIN res.body = {"token", "user"}
                        /\ DOMAIN res.body.token.payload = {"userId", "email", "iat", "exp"}
        ELSE /\ DOMAIN res.body = {"message"}
             /\ res.body.message \in UserRouteMessages
             /\ Has(req.body, "password") => res.body.message # req.body.password

\* C15 witness: the current-user lookup answered a user whose row holds a
\* digest.
C15_Witness ==
    /\ req.route = "currentUser"
    /\ res.status = 200
    /\ \E u \in users : u.id = res.body.id /\ u.password.alg = "bcrypt"

\* C16: the password column of every stored user is the bcrypt hash of the
\* password its registration supplied, and not that password itself.
C16_NoPlaintextStored ==
    \A u \in users :
        \E r \in registered :
            /\ r.id = u.id
            /\ \E salt \in Salts : u.password = bcryptHash(r.password, salt)
            /\ bcryptCompare(r.password, u.password)
            /\ u.password # Plain(r.password)

\* C16 witness: a registration was answered 201 and its user stored.
C16_Witness ==
    /\ req.route = "register"
    /\ res.status = 201
    /\ \E u \in users \ before.users : u.password.of = req.body.password

\* C17: a protected request whose token is expired, malformed or signed with
\* another secret gets the same answer in the three cases: 403 "Token
\* inválido", and its handler does not run.
C17_UniformTokenRejection ==
    (req.route \in ProtectedRoutes
     /\ req.err \in {"jwt expired", "jwt malformed", "invalid signature"}) =>
        /\ res = Json(403, Message("Token inválido"))
        /\ calls = <<>>

\* C17 witness: a request with an expired token was answered 403.
C17_Witness ==
    /\ req.route \in ProtectedRoutes
    /\ req.err = "jwt expired"
    /\ res.status = 403

\* the times a token is presented at, from its issue to two lifetimes on
TimesFrom(t) == t..(t + 2 * ExpiresIn)

\* C18: the token in a 201 of register or a 200 of login carries the id and
\* email of the user that registered or logged in; the gate lets it through
\* at every time less than 7 days after its issue and answers 403 at every
\* time 7 days or more after it.
C18_TokenLifetime ==
    (req.route \in {"register", "login"} /\ res.status \in {200, 201}) =>
        LET token == res.body.token
        IN  /\ token.payload.userId = res.body.user.id
            /\ token.payload.email = req.body.email
            /\ \E u \in users : u.id = token.payload.userId /\ u.email = req.body.email
            /\ token.payload.iat = now
            /\ \A t \in TimesFrom(now) :
                   LET g == authenticateToken(<<"Bearer", token>>, t)
                   IN  IF t < now + ExpiresIn
                       THEN g.next /\ g.user.userId = res.body.user.id
                                   /\ g.user.email = res.body.user.email
                       ELSE ~g.next /\ g.res = Json(403, Message("Token inválido"))

\* C18 witness: a login was answered 200 a token lifetime after the user
\* registered.
C18_Witness ==
    /\ req.route = "login"
    /\ res.status = 200
    /\ \E u \in users : u.id = res.body.user.id /\ u.createdAt + ExpiresIn <= now

\* C19: the owner of a project the create route stores is the user id of
\* the caller's verified token, whatever the body holds.
C19_OwnerFromToken ==
    (req.route = "createProject" /\ res.status = 201) =>
        /\ req.gate = "verified"
        /\ res.body.userId = req.userId
        /\ \A p \in projects \ before.projects : p.userId = req.userId
        /\ projects \ before.projects = {res.body}

\* C19 witness: a create whose body names another user as userId was
\* answered 201.
C19_Witness ==
    /\ req.route = "createProject"
    /\ res.status = 201
    /\ Has(req.body, "userId")
    /\ req.body.userId # req.userId

\* C20: the list route answers a verified user with the projects that user
\* owns, each once and no other, by creation time ascending: a project with
\* an earlier creation time comes before one with a later.
C20_ListResult ==
    (req.route = "listProjects" /\ req.gate = "verified") =>
        /\ res.status = 200
        /\ {res.body[i] : i \in DOMAIN res.body} = OwnedNow
        /\ Len(res.body) = Cardinality(OwnedNow)
        /\ \A i, j \in DOMAIN res.body :
               /\ i < j => res.body[i].createdAt <= res.body[j].createdAt
               /\ res.body[i].createdAt < res.body[j].createdAt => i < j

\* C20 witness: a list of two projects created at different times.
C20_Witness ==
    /\ req.route = "listProjects"
    /\ res.status = 200
    /\ Len(res.body) = 2
    /\ res.body[1].createdAt < res.body[2].createdAt

\* the user ids a token may name: those of stored users and one more
AnyUserIds == {UserId(n) : n \in 1..(Cardinality(users) + 1)}

\* C21: the current-user lookup answers a verified token with 200 and the
\* id, name and email of the stored user the token names; it answers 404
\* exactly when no stored user has the id, which no token issued by register
\* or login brings about.
C21_CurrentUserLookup ==
    /\ (req.route = "currentUser" /\ req.gate = "verified") =>
           /\ res.status = 200
           /\ res.body.id = req.userId
           /\ \E u \in users : res.body = [id |-> u.id, name |-> u.name, email |-> u.email]
    /\ req = Idle =>
           \A id \in AnyUserIds :
               LET o == currentUserHandler([userId |-> id, email |-> "ana@x.com"],
                                           users, projects, projectSeq)
               IN  /\ o.res.status \in {200, 404}
                   /\ o.res.status = 404 <=> (\A u \in users : u.id # id)
                   /\ o.res.status = 404 => o.res.body = Message("Usuário não encontrado")
    /\ \A r \in registered : \E u \in users : u.id = r.id /\ u.email = r.email

\* C21 witness: the second of two users looked itself up.
C21_Witness ==
    /\ req.route = "currentUser"
    /\ res.status = 200
    /\ Cardinality(users) = 2
    /\ res.body.id = UserId(2)

\* C22: no request removes or changes a stored user; a registration answered
\* 201 adds exactly one, and no other request adds any.
C22_UserLifecycle ==
    /\ before.users \subseteq users
    /\ IF req.route = "register" /\ res.status = 201
       THEN /\ Cardinality(users \ before.users) = 1
            /\ \A u \in users \ before.users :
                   u.id = res.body.user.id /\ \A v \in before.users : v.id # u.id
       ELSE users = before.users

\* C22 witness: a second registration was answered 201 and the first user
\* is as it was.
C22_Witness ==
    /\ req.route = "register"
    /\ res.status = 201
    /\ before.users # {}
    /\ Cardinality(users) = Cardinality(before.users) + 1

\* C26: the status of every stored project is pendente, andamento or
\* concluido; a create or update that reaches validation with another
\* status is answered 400 and leaves the projects as they were.
C26_StatusDomain ==
    /\ \A p \in projects : p.status \in Statuses
    /\ ( /\ req.route \in {"createProject", "updateProject"}
         /\ req.gate = "verified"
         /\ Has(req.body, "status")
         /\ req.body.status \notin Statuses ) =>
           /\ res.status = 400
           /\ projects = before.projects
           /\ calls = <<>>

\* C26 witness: the owner's update of a project with status "done" was
\* answered 400.
C26_Witness ==
    /\ req.route = "updateProject"
    /\ req.gate = "verified"
    /\ Has(req.body, "status")
    /\ req.body.status = "done"
    /\ res.status = 400
    /\ \E p \in projects : p.id = req.id /\ p.userId = req.userId

\* the rows a request does not address: another id or another owner
NotAddressed == {p \in before.projects : p.id # req.id \/ p.userId # req.userId}

\* C30: an update answered 200 keeps the id, the owner and the creation
\* time of its project; an update or a delete leaves every project it does
\* not address by id and owner as it was; and a project has the same owner
\* as long as it is stored.
C30_UpdateDeleteFrame ==
    /\ (req.route = "updateProject" /\ res.status = 200) =>
           /\ res.body.id = OldRow.id
           /\ res.body.userId = OldRow.userId
           /\ res.body.createdAt = OldRow.createdAt
           /\ projects = NotAddressed \cup {res.body}
    /\ (req.route \in {"updateProject", "deleteProject"} /\ req.gate = "verified") =>
           /\ NotAddressed \subseteq projects
           /\ \A p \in projects : p \in NotAddressed \/ p.id = req.id
    /\ \A p \in before.projects, q \in projects : p.id = q.id => p.userId = q.userId

\* C30 witness: an update answered 200, a token lifetime after the project
\* was created, while another project is stored.
C30_Witness ==
    /\ req.route = "updateProject"
    /\ res.status = 200
    /\ res.body.createdAt < res.body.updatedAt
    /\ NotAddressed # {}

\* two requests of one owner for one project that was stored when each
\* arrived, both answered
RacedOn(s, t) ==
    /\ s # t
    /\ inflight[s].pc = "done"
    /\ inflight[t].pc = "done"
    /\ inflight[s].fresh
    /\ inflight[t].fresh
    /\ inflight[s].id = inflight[t].id
    /\ inflight[s].userId = inflight[t].userId

\* C29: of two concurrent deletes of one project by its owner one is
\* answered 204 and the other 404; of an update and a delete racing, the
\* delete is answered 204 and the update 200 with the updated project or
\* 404; either way the project is gone once both are answered.
C29_ConcurrentDeletes ==
    \A s, t \in Slots :
        (RacedOn(s, t) /\ inflight[t].route = "deleteProject") =>
            /\ \A p \in projects : p.id # inflight[t].id
            /\ inflight[s].route = "deleteProject" =>
                   {inflight[s].res.status, inflight[t].res.status} = {204, 404}
            /\ inflight[s].route = "updateProject" =>
                   /\ inflight[t].res.status = 204
                   /\ inflight[s].res.status \in {200, 404}
                   /\ inflight[s].res.status = 200 =>
                          /\ inflight[s].res.body.id = inflight[s].id
                          /\ inflight[s].res.body.status = inflight[s].body.status
                   /\ inflight[s].res.status = 404 =>
                          inflight[s].res.body = Message("Projeto não encontrado")

\* C29 witness: an update that raced with a delete of the same project was
\* answered 404.
C29_Witness ==
    \E s, t \in Slots :
        /\ RacedOn(s, t)
        /\ inflight[t].route = "deleteProject"
        /\ inflight[s].route = "updateProject"
        /\ inflight[s].res.status = 404

\* the last step of the client was the answer to the user lookup
LookupAnswered == last.event = "answered" /\ last.key = UserKey

\* C28: when the user lookup is answered 401 or 403 the instance that sent
\* it sets its token to null, its effect then removes authToken from
\* localStorage, and the query yields null without an error; on any other
\* failure status the token is kept and the query is in error; the lookup
\* is only sent by an instance whose token is not null, with that token.
C28_RejectedToken ==
    /\ (LookupAnswered /\ last.status \in {401, 403}) =>
           /\ tokens[last.hook] = NoToken
           /\ last.token # NoToken => last.hook \in effects
           /\ cache[UserKey].status = "success"
           /\ cache[UserKey].data = <<>>
    /\ (LookupAnswered /\ last.status \notin {200, 401, 403}) =>
           /\ tokens[last.hook] = last.token
           /\ last.hook \notin effects
           /\ cache[UserKey].status = "error"
    /\ (last.event = "effect" /\ tokens[last.hook] = NoToken) => localStorage = NoToken
    /\ (last.event = "sent" /\ last.key = UserKey) =>
           /\ tokens[last.hook] # NoToken
           /\ flight[UserKey].header = <<"Bearer", tokens[last.hook][1]>>

\* C28 witness: a lookup was answered 403 and the token that was sent is
\* dropped.
C28_Witness ==
    /\ LookupAnswered
    /\ last.status = 403
    /\ last.token # NoToken
    /\ tokens[last.hook] = NoToken

\* C24 as the specification states it: once a login or registration has
\* succeeded and the client has settled, every mounted consumer of useAuth
\* reports isAuthenticated.
C24_Original ==
    (auth.event = "login" /\ Quiet) => \A h \in Hooks : isAuthenticated(h)

\* C27 as the specification states it: logout() leaves the token state
\* null, every query cleared and isAuthenticated false; once its effect ran
\* authToken is gone and getAuthHeaders() has no Authorization; no request
\* sent afterwards carries the token that was logged out.
C27_Original ==
    /\ last.event = "logout" =>
           /\ tokens[last.hook] = NoToken
           /\ \A k \in QueryKeys : cache[k] = Absent
    /\ auth.event = "logout" => ~isAuthenticated("page")
    /\ (auth.event = "logout" /\ effects = {}) =>
           /\ localStorage = NoToken
           /\ getAuthHeaders = NoHeader
    /\ \A k \in QueryKeys \cup {MutationKey} : flight[k].on => ~flight[k].old

\* the last step of the client sent a query of the Dashboard
DashboardFetched == last.event = "sent" /\ last.key \in DashboardKeys

\* the last step of the client was a login or registration answered 2xx
SignedIn ==
    /\ last.event = "answered"
    /\ last.key \in {"login", "register"}
    /\ ResponseOk(last.status)

ProjectMutations == {"createProject", "updateProject", "deleteProject"}

\* the list and the stats the server holds for the client's user
ServerList == UNION {getProjects(projects, u.id) : u \in users}

ServerStats == {getProjectStats(projects, u.id) : u \in users}

\* C23: right after a create, update or delete succeeded both queries of
\* the Dashboard are invalidated and about to be fetched again; a query
\* that was fetched and not invalidated since holds the server's list or
\* stats; a mutation that failed leaves the cache and the fetches as they
\* were.
C23_CacheInvalidation ==
    /\ [](/\ (last.event = "answered" /\ last.key \in ProjectMutations
                /\ ResponseOk(last.status)) =>
                  \A k \in DashboardKeys :
                      /\ cache[k].invalid
                      /\ page = "dashboard" /\ ~flight[k].on /\ NeedsFetch(k)
          /\ (cache[ProjectsKey].status = "success" /\ ~cache[ProjectsKey].invalid) =>
                  cache[ProjectsKey].data[1] \in ServerList
          /\ (cache[StatsKey].status = "success" /\ ~cache[StatsKey].invalid) =>
                  cache[StatsKey].data[1] \in ServerStats)
    /\ [][(last'.event = "answered" /\ last'.key \in ProjectMutations
              /\ ~ResponseOk(last'.status)) =>
                 /\ cache' = cache
                 /\ \A k \in DashboardKeys : flight'[k] = flight[k]]_vars

\* C23 witness: the project was deleted and the list fetched again after
\* that is empty.
C23_Witness ==
    /\ last.event = "answered"
    /\ last.key = ProjectsKey
    /\ projectSeq = 1
    /\ projects = {}
    /\ cache[ProjectsKey].data = << <<>> >>

====
